---- MODULE Spec2Model ----
(***************************************************************************)
(* The diff-and-validation state engine of blitzform / react-controlled-   *)
(* form: useForm (the sparse diff, the touched map, the derivations,       *)
(* handleSubmit) and useField (the per-field binding and its handlers).    *)
(*                                                                         *)
(* React state is the pair (diff, touchedFields).  The schema, the         *)
(* upstream data, the config and the binding options are props; they are   *)
(* chosen in Init.  Under Spec they stay fixed; under SpecSave the host    *)
(* replaces the upstream data with the data it saved.  Every handler call  *)
(* is one action and is followed by a re-render, so every derivation reads *)
(* the committed state; under SpecBatch two calls may also be dispatched   *)
(* from the closures of one render, their state updates queued.            *)
(***************************************************************************)
EXTENDS Integers, Sequences, FiniteSets, TLC

VARIABLES
  variant,        \* which of the two library forks: "blitz" or "rcf"
  upstreamData,   \* useForm's second argument
  config,         \* useForm's third argument
  options,        \* the options every binding is created with
  diff,           \* useState: field -> what diff[field] reads
  touchedFields,  \* useState: field -> boolean
  last,           \* the operation performed last, with its arguments
  calls           \* the callbacks the last operation invoked, in order, or
                  \* the outcome of the last binding through the provider

vars == <<variant, upstreamData, config, options, diff, touchedFields,
          last, calls>>

props == <<variant, upstreamData, config, options>>

\* the props the host never replaces
fixedProps == <<variant, config, options>>

-----------------------------------------------------------------------------
(* JavaScript values.  Every value is a record of one shape so that any two *)
(* can be compared: k is the type, s the text of a primitive, ref the       *)
(* identity of an object and a the elements of an array.                    *)

MaxArrLen == 2

\* how many renders in a row without a state change are followed
MaxRenders == 2

Undef == [k |-> "undefined", s |-> "", ref |-> "", a |-> <<>>]
Null == [k |-> "null", s |-> "", ref |-> "", a |-> <<>>]
Str(x) == [k |-> "string", s |-> x, ref |-> "", a |-> <<>>]
Num0 == [k |-> "number", s |-> "0", ref |-> "", a |-> <<>>]
False == [k |-> "boolean", s |-> "false", ref |-> "", a |-> <<>>]
True == [k |-> "boolean", s |-> "true", ref |-> "", a |-> <<>>]
Bool(b) == IF b THEN True ELSE False
Function(name) == [k |-> "function", s |-> "", ref |-> name, a |-> <<>>]
Arr(r, elems) == [k |-> "array", s |-> "", ref |-> r, a |-> elems]

PermissionNames == {"Read", "Write"}

ArrayContents ==
  UNION {[1..n -> PermissionNames] : n \in 0..MaxArrLen} \cup {<<"Read,Write">>}

\* a === b: primitives by value, objects by identity
StrictEquals(a, b) == a = b

\* a ?? b
Nullish(a, b) == IF a = Undef \/ a = Null THEN b ELSE a

-----------------------------------------------------------------------------
(* The equality functions a binding can be created with.                    *)

\* Array.prototype.sort() orders strings by code unit
CodeUnitRank(x) ==
  CASE x = "Read" -> 1
    [] x = "Read,Write" -> 2
    [] x = "Write" -> 3

RECURSIVE Insert(_, _)
Insert(x, sorted) ==
  IF sorted = <<>> THEN <<x>>
  ELSE IF CodeUnitRank(x) <= CodeUnitRank(Head(sorted)) THEN <<x>> \o sorted
  ELSE <<Head(sorted)>> \o Insert(x, Tail(sorted))

RECURSIVE Sort(_)
Sort(elems) == IF elems = <<>> THEN <<>> ELSE Insert(Head(elems), Sort(Tail(elems)))

\* Array.prototype.join(',')
RECURSIVE Join(_)
Join(elems) ==
  IF elems = <<>> THEN ""
  ELSE IF Len(elems) = 1 THEN Head(elems)
  ELSE Head(elems) \o "," \o Join(Tail(elems))

defaultIsEqual(a, b) == StrictEquals(a, b)

\* the order-insensitive comparison of the select example
sortedJoinIsEqual(a, b) ==
  IF a.k = "array" /\ b.k = "array"
  THEN Join(Sort(a.a)) = Join(Sort(b.a))
  ELSE StrictEquals(a, b)

-----------------------------------------------------------------------------
(* The schema: z.object({ email: z.string().email(),                       *)
(*                        permissions: z.array(z.string()).min(1)           *)
(*                                      .nullable() })                      *)

\* Object.keys(schema.shape)
fieldKeys == <<"email", "permissions">>

Fields == {fieldKeys[i] : i \in 1..Len(fieldKeys)}

ValidEmails == {"a@b.c"}

Issue(msg) == [path |-> "", message |-> msg]

Ok(v) == [success |-> TRUE, data |-> v, issues |-> <<>>]
Fail(msg) == [success |-> FALSE, data |-> Undef, issues |-> <<Issue(msg)>>]

TypeIssue(v) == IF v = Undef THEN "Required" ELSE "Invalid type"

\* schema.shape[key].safeParse(v)
itemSafeParse(key, v) ==
  CASE key = "email" ->
         IF v.k # "string" THEN Fail(TypeIssue(v))
         ELSE IF v.s \in ValidEmails THEN Ok(v)
         ELSE Fail("Invalid email address")
    [] key = "permissions" ->
         IF v = Null THEN Ok(v)
         ELSE IF v.k # "array" THEN Fail(TypeIssue(v))
         ELSE IF Len(v.a) >= 1 THEN Ok(Arr("parsed", v.a))
         ELSE Fail("Please select at least one permission")

RECURSIVE ObjectIssues(_, _)
ObjectIssues(record, i) ==
  IF i > Len(fieldKeys) THEN <<>>
  ELSE LET key == fieldKeys[i]
           r == itemSafeParse(key, record[key])
       IN  [j \in 1..Len(r.issues) |-> [path |-> key, message |-> r.issues[j].message]]
           \o ObjectIssues(record, i + 1)

\* schema.safeParse(record): every key of the shape is parsed, every issue kept
schemaSafeParse(record) ==
  LET issues == ObjectIssues(record, 1)
  IN  IF issues = <<>>
      THEN [success |-> TRUE,
            data |-> [key \in Fields |-> itemSafeParse(key, record[key]).data],
            issues |-> <<>>]
      ELSE [success |-> FALSE, data |-> [key \in Fields |-> Undef], issues |-> issues]

-----------------------------------------------------------------------------
(* The props a form is mounted with.                                        *)

UpstreamChoices ==
  { [email |-> Str("a@b.c"), permissions |-> Arr("r0", <<"Read", "Write">>)],
    [email |-> Undef, permissions |-> Undef] }

\* what a binding's parseValue can hand to onChange for a field
InputValues(key) ==
  CASE key = "email" -> {Undef, Null, Str(""), Str("bad"), Str("a@b.c"), Num0, False}
    [] key = "permissions" ->
         {Null, Arr("r0", <<"Read", "Write">>)} \cup {Arr("r1", c) : c \in ArrayContents}

\* config.initTouched: omitted, a boolean, or a partial map (the keys it holds
\* true for)
InitTouched(kind, all, map) == [kind |-> kind, all |-> all, map |-> map]

Config(it, untouch, show) ==
  [initTouched |-> it, defaultUntouchOn |-> untouch, defaultShowValidationOn |-> show,
   isEqual |-> [key \in Fields |-> "omitted"]]

\* config.isEqual: { permissions: <the order-insensitive comparison> }
WithFormIsEqual(cfg) == [cfg EXCEPT !.isEqual["permissions"] = "sortedJoin"]

\* the options of the bindings; each field's binding has its own unTouchOn
OptionsPerField(untouchOf, show) ==
  [unTouchOn |-> untouchOf, showValidationOn |-> show, isEqual |-> "omitted",
   disabled |-> "omitted", disabledIf |-> "omitted"]

\* options.disabled ("omitted", "true" or "false") and options.disabledIf
WithDisable(opts, flag, predicate) ==
  [opts EXCEPT !.disabled = flag, !.disabledIf = predicate]

Options(untouch, show) == OptionsPerField([key \in Fields |-> untouch], show)

\* the config of useForm with the options of its bindings
Setups ==
  { [config |-> WithFormIsEqual(Config(InitTouched("omitted", FALSE, {}),
                                        "omitted", "omitted")),
     options |-> WithDisable(Options("omitted", "omitted"), "omitted", "emailIsShared")],
    [config |-> Config(InitTouched("boolean", TRUE, {}), "focus", "always"),
     options |-> WithDisable(Options("change", "touched"), "true", "emailIsShared")],
    [config |-> Config(InitTouched("map", FALSE, {"email"}), "change", "touched"),
     options |-> Options("never", "always")],
    [config |-> Config(InitTouched("boolean", FALSE, {}), "never", "omitted"),
     options |-> WithDisable(Options("omitted", "omitted"), "false", "emailIsShared")],
    [config |-> Config(InitTouched("omitted", FALSE, {}), "change", "always"),
     options |-> Options("omitted", "omitted")],
    [config |-> Config(InitTouched("map", FALSE, {"permissions"}), "focus", "touched"),
     options |-> OptionsPerField([email |-> "never", permissions |-> "change"],
                                 "omitted")] }

IsEqualChoices == {"omitted", "sortedJoin"}

-----------------------------------------------------------------------------
(* useForm: the derivations of one render.                                  *)

defaultShowValidationOn ==
  IF config.defaultShowValidationOn = "omitted" THEN "touched"
  ELSE config.defaultShowValidationOn

defaultUntouchOn ==
  IF config.defaultUntouchOn = "omitted" THEN "focus" ELSE config.defaultUntouchOn

\* initTouched taking a map for true
initTouchedTruthy ==
  [key \in Fields |->
     IF config.initTouched.kind = "boolean" THEN config.initTouched.all
     ELSE config.initTouched.kind = "map"]

initTouched ==
  [key \in Fields |->
     IF config.initTouched.kind = "boolean" THEN config.initTouched.all
     ELSE key \in config.initTouched.map]

isTouched(fieldName) == touchedFields[fieldName]

isDiff(fieldName) == diff[fieldName] # Undef

\* an absent upstream field read as the empty string
getUpstreamValueOrEmpty(fieldName) ==
  IF upstreamData[fieldName] = Undef THEN Str("") ELSE upstreamData[fieldName]

getUpstreamValue(fieldName) == upstreamData[fieldName]

formValues == [key \in Fields |-> Nullish(diff[key], getUpstreamValue(key))]

getValue(fieldName) ==
  IF variant = "blitz" THEN formValues[fieldName]
  ELSE Nullish(diff[fieldName], getUpstreamValue(fieldName))

\* (the blitz fork writes fieldErrors above formValues and getValue; each
\* derivation here is what its definition denotes)
fieldErrors == [key \in Fields |-> itemSafeParse(key, getValue(key))]

\* the ZodError of a field as its issues; <<>> is undefined
getError(fieldName) == fieldErrors[fieldName].issues

\* dirtiness judged by comparing each value on display with upstream
formDirtyByValue ==
  \E key \in Fields : ~StrictEquals(getValue(key), getUpstreamValue(key))

formDirty == Cardinality({key \in Fields : isDiff(key)}) > 0

\* the keys of the object useForm returns
returnedKeys ==
  {"ctx", "formProps", "formDirty", "reset", "handleSubmit", "touchAll", "useField"}
    \cup (IF variant = "blitz" THEN {"resetTouched"} ELSE {})

\* const { [key]: x } = useForm(...): a key the object lacks reads undefined
destructured(key) ==
  IF key \notin returnedKeys THEN Undef
  ELSE IF key = "formDirty" THEN Bool(formDirty)
  ELSE Function(key)

\* error.errors[0]?.message ?? error.message
defaultFormatErrorMessage(error) ==
  IF Len(error) > 0 THEN error[1].message ELSE "ZodError"

formatErrorMessage(error, key) == defaultFormatErrorMessage(error)

-----------------------------------------------------------------------------
(* The body of useForm as the statements of one render, in source order.    *)
(* declares: the bindings the statement initialises; uses: the bindings it  *)
(* reads while it runs; invokes: the functions it calls while it runs (a    *)
(* reduce or filter callback runs once per schema key).  An arrow function  *)
(* reads nothing when it is declared; bodyUses is what it reads when called.*)

Statement(declares, uses, invokes) ==
  [declares |-> declares, uses |-> uses, invokes |-> invokes]

parameters == {"schema", "upstreamData", "config"}

bodyUses(fn) ==
  CASE fn = "getValue" ->
         IF variant = "blitz" THEN {"formValues"} ELSE {"diff", "getUpstreamValue"}
    [] fn = "isDiff" -> {"diff"}
    [] fn = "getUpstreamValue" -> {"upstreamData"}
    [] OTHER -> {}

ctxUses ==
  {"schema", "isDiff", "isTouched", "getValue", "getError", "getUpstreamValue",
   "setDiff", "setTouched", "formatErrorMessage", "defaultShowValidationOn",
   "defaultUntouchOn"} \cup (IF variant = "blitz" THEN {"formValues"} ELSE {})

useFormBody ==
  IF variant = "blitz"
  THEN << Statement({"fieldKeys"}, {"schema"}, {}),
          Statement({"defaultShowValidationOn", "defaultUntouchOn",
                     "formatErrorMessage"}, {"config"}, {}),
          Statement({"initTouched"}, {"fieldKeys", "config"}, {}),
          Statement({"diff", "setDiff"}, {}, {}),
          Statement({"touchedFields", "setTouchedFields"}, {"initTouched"}, {}),
          Statement({"isTouched"}, {}, {}),
          Statement({"setTouched"}, {}, {}),
          Statement({"isDiff"}, {}, {}),
          Statement({"getUpstreamValue"}, {}, {}),
          Statement({"fieldErrors"}, {"fieldKeys", "schema"}, {"getValue"}),
          Statement({"formValues"}, {"fieldKeys", "diff"}, {"getUpstreamValue"}),
          Statement({"getValue"}, {}, {}),
          Statement({"getError"}, {}, {}),
          Statement({"touchAll"}, {}, {}),
          Statement({"resetTouched"}, {}, {}),
          Statement({"ctx"}, ctxUses, {}),
          Statement({"handleSubmit"}, {}, {}),
          Statement({"reset"}, {}, {}),
          Statement({"formDirty"}, {"fieldKeys"}, {"isDiff"}),
          Statement({"return"}, {"ctx", "formDirty", "reset", "handleSubmit",
                                 "touchAll", "resetTouched"}, {}) >>
  ELSE << Statement({"defaultShowValidationOn", "defaultUntouchOn",
                     "formatErrorMessage"}, {"config"}, {}),
          Statement({"initTouched"}, {"schema", "config"}, {}),
          Statement({"diff", "setDiff"}, {}, {}),
          Statement({"touchedFields", "setTouchedFields"}, {"initTouched"}, {}),
          Statement({"isTouched"}, {}, {}),
          Statement({"setTouched"}, {}, {}),
          Statement({"touchAll"}, {}, {}),
          Statement({"isDiff"}, {}, {}),
          Statement({"getUpstreamValue"}, {}, {}),
          Statement({"getValue"}, {}, {}),
          Statement({"dirtyFieldsArray"}, {"schema"}, {"isDiff"}),
          Statement({"fieldErrors"}, {"schema"}, {"getValue"}),
          Statement({"getError"}, {}, {}),
          Statement({"ctx"}, ctxUses, {}),
          Statement({"handleSubmit"}, {}, {}),
          Statement({"reset"}, {}, {}),
          Statement({"return"}, {"ctx", "dirtyFieldsArray", "reset", "handleSubmit",
                                 "touchAll"}, {}) >>

\* the bindings initialised when statement i starts
initialised(i) ==
  parameters \cup UNION {useFormBody[j].declares : j \in 1..(i - 1)}

\* what statement i needs initialised: a callback runs only for a schema
\* with at least one key
needs(i) ==
  LET st == useFormBody[i]
  IN  st.uses \cup (IF Fields = {} THEN {}
                    ELSE st.invokes \cup UNION {bodyUses(fn) : fn \in st.invokes})

\* reading a const before its declaration has run throws
throwsAt(i) == ~(needs(i) \subseteq initialised(i))

useFormCompletes == \A i \in 1..Len(useFormBody) : ~throwsAt(i)

-----------------------------------------------------------------------------
(* useField: the binding of one field in one render.                        *)

\* const { isEqual = defaultIsEqual } = options
isEqual(a, b) ==
  IF options.isEqual = "sortedJoin" THEN sortedJoinIsEqual(a, b) ELSE defaultIsEqual(a, b)

\* const { showValidationOn = defaultShowValidationOn } = options
showValidationOn ==
  IF options.showValidationOn = "omitted" THEN defaultShowValidationOn
  ELSE options.showValidationOn

\* the form default taking precedence over the binding's option
unTouchOnFormFirst(name) ==
  IF config.defaultUntouchOn # "omitted" THEN config.defaultUntouchOn
  ELSE IF options.unTouchOn[name] # "omitted" THEN options.unTouchOn[name]
  ELSE "focus"

\* const { unTouchOn = defaultUntouchOn } = options
unTouchOn(name) ==
  IF options.unTouchOn[name] = "omitted" THEN defaultUntouchOn
  ELSE options.unTouchOn[name]

dirty(name) == isDiff(name)

valid(name) == getError(name) = <<>>

NoMessage == "undefined"

errorMessage(name) ==
  IF getError(name) = <<>> THEN NoMessage
  ELSE IF showValidationOn = "touched" /\ ~isTouched(name) THEN NoMessage
  ELSE formatErrorMessage(getError(name), name)

inputPropsValue(name) == getValue(name)

\* const { disabled = false } = options
disabled == options.disabled = "true"

\* options.disabledIf: (formState) => formState.email === 'a@b.c'
disabledIf(formState) == Bool(formState["email"] = Str("a@b.c"))

\* !schema.shape[name].isOptional()
required(name) == ~itemSafeParse(name, Undef).success

\* disabled ? true : (disabledIf?.(formValues) ?? false); the second fork's
\* binding has no disabledIf and passes the static flag on
inputPropsDisabled(name) ==
  IF variant = "rcf" THEN disabled
  ELSE IF disabled THEN TRUE
  ELSE IF options.disabledIf = "omitted" THEN FALSE
  ELSE Nullish(disabledIf(formValues), False) = True

\* what useField(ctx, name, options) returns (the handlers apart)
useField(name) ==
  [inputProps |-> [value |-> inputPropsValue(name),
                   disabled |-> inputPropsDisabled(name),
                   required |-> required(name),
                   name |-> name,
                   dataValid |-> valid(name)],
   upstreamValue |-> getUpstreamValue(name),
   disabled |-> disabled,
   touched |-> isTouched(name),
   dirty |-> dirty(name),
   valid |-> valid(name),
   errorMessage |-> errorMessage(name)]

\* throw new Error('... must be used within a ...Provider')
Thrown ==
  [cb |-> "throw", data |-> <<>>,
   issues |-> <<IF variant = "blitz"
                THEN "useBlitzformField must be used within a BlitzformProvider"
                ELSE "useRcfField must be used within a RcfFormProvider">>]

Returned(binding) == [cb |-> "return", data |-> <<binding>>, issues |-> <<>>]

-----------------------------------------------------------------------------
(* State updates.                                                           *)

\* setTouched without the spread of prev
setTouchedNoSpread(prev, fieldName, touched) ==
  [key \in Fields |-> IF key = fieldName THEN touched ELSE FALSE]

\* setTouchedFields((prev) => ({ ...prev, [fieldName]: touched }))
setTouched(prev, fieldName, touched) == [prev EXCEPT ![fieldName] = touched]

\* onChange storing whatever it is given
changedDiffNoPrune(prev, name, value) == [prev EXCEPT ![name] = value]

\* onChange comparing with the value on display instead of the upstream value
changedDiffAgainstCurrent(prev, name, value) ==
  IF isEqual(value, getValue(name))
  THEN [prev EXCEPT ![name] = Undef]
  ELSE [prev EXCEPT ![name] = value]

\* onChange's setDiff without the spread of prev
changedDiffNoSpread(prev, name, value) ==
  [key \in Fields |->
     IF key # name THEN Undef
     ELSE IF isEqual(value, getUpstreamValue(name)) THEN Undef ELSE value]

\* the two setDiff calls of onChange
changedDiff(prev, name, value) ==
  IF isEqual(value, getUpstreamValue(name))
  THEN [prev EXCEPT ![name] = Undef]
  ELSE [prev EXCEPT ![name] = value]

\* reset writing empty strings instead of removing the entries
emptyStrings == [key \in Fields |-> Str("")]

\* setDiff({})
emptyDiff == [key \in Fields |-> Undef]

allTouched == [key \in Fields |-> TRUE]

\* pre is <<the diff handleSubmit was called in>>, or <<>>
Op(op, f, v, cbs, pre) == [op |-> op, f |-> f, v |-> v, cbs |-> cbs, pre |-> pre]

NoCallbacks == [onSubmit |-> "", onError |-> ""]

-----------------------------------------------------------------------------
(* The operations.                                                          *)

Init ==
  /\ variant \in {"blitz", "rcf"}
  /\ upstreamData \in UpstreamChoices
  /\ \E setup \in Setups, eq \in IsEqualChoices :
       /\ config = setup.config
       /\ options = [setup.options EXCEPT !.isEqual = eq]
  /\ diff = emptyDiff
  /\ touchedFields = initTouched
  /\ last = Op("init", "", Undef, NoCallbacks, <<>>)
  /\ calls = <<>>

\* onChange with the untouch inside the branch that stores the value
onChangeUntouchWhenStored(name, value) ==
  /\ diff' = changedDiff(diff, name, value)
  /\ touchedFields' = IF unTouchOn(name) = "change" /\ ~isEqual(value, getUpstreamValue(name))
                      THEN setTouched(touchedFields, name, FALSE)
                      ELSE touchedFields
  /\ last' = Op("onChange", name, value, NoCallbacks, <<>>)
  /\ calls' = <<>>
  /\ UNCHANGED props

\* onChange ignoring the event while the field is disabled
onChangeUnlessDisabled(name, value) ==
  /\ diff' = IF inputPropsDisabled(name) THEN diff ELSE changedDiff(diff, name, value)
  /\ touchedFields' = IF unTouchOn(name) = "change" /\ ~inputPropsDisabled(name)
                      THEN setTouched(touchedFields, name, FALSE)
                      ELSE touchedFields
  /\ last' = Op("onChange", name, value, NoCallbacks, <<>>)
  /\ calls' = <<>>
  /\ UNCHANGED props

\* value is what parseValue returned
onChange(name, value) ==
  /\ diff' = changedDiff(diff, name, value)
  /\ touchedFields' = IF unTouchOn(name) = "change"
                      THEN setTouched(touchedFields, name, FALSE)
                      ELSE touchedFields
  /\ last' = Op("onChange", name, value, NoCallbacks, <<>>)
  /\ calls' = <<>>
  /\ UNCHANGED props

\* onFocus dropping the field's entry along with the touched flag
onFocusDropsEntry(name) ==
  /\ touchedFields' = IF unTouchOn(name) = "focus"
                      THEN setTouched(touchedFields, name, FALSE)
                      ELSE touchedFields
  /\ diff' = IF unTouchOn(name) = "focus" THEN [diff EXCEPT ![name] = Undef] ELSE diff
  /\ last' = Op("onFocus", name, Undef, NoCallbacks, <<>>)
  /\ calls' = <<>>
  /\ UNCHANGED props

\* onFocus passing true to setTouched
onFocusTouches(name) ==
  /\ touchedFields' = IF unTouchOn(name) = "focus"
                      THEN setTouched(touchedFields, name, TRUE)
                      ELSE touchedFields
  /\ last' = Op("onFocus", name, Undef, NoCallbacks, <<>>)
  /\ calls' = <<>>
  /\ UNCHANGED <<props, diff>>

onFocus(name) ==
  /\ touchedFields' = IF unTouchOn(name) = "focus"
                      THEN setTouched(touchedFields, name, FALSE)
                      ELSE touchedFields
  /\ last' = Op("onFocus", name, Undef, NoCallbacks, <<>>)
  /\ calls' = <<>>
  /\ UNCHANGED <<props, diff>>

\* onBlur honouring the unTouchOn policy
onBlurUnlessNever(name) ==
  /\ touchedFields' = IF unTouchOn(name) = "never" THEN touchedFields
                      ELSE setTouched(touchedFields, name, TRUE)
  /\ last' = Op("onBlur", name, Undef, NoCallbacks, <<>>)
  /\ calls' = <<>>
  /\ UNCHANGED <<props, diff>>

onBlur(name) ==
  /\ touchedFields' = setTouched(touchedFields, name, TRUE)
  /\ last' = Op("onBlur", name, Undef, NoCallbacks, <<>>)
  /\ calls' = <<>>
  /\ UNCHANGED <<props, diff>>

touchAll ==
  /\ touchedFields' = allTouched
  /\ last' = Op("touchAll", "", Undef, NoCallbacks, <<>>)
  /\ calls' = <<>>
  /\ UNCHANGED <<props, diff>>

\* resetTouched clearing every flag
resetTouchedAllFalse ==
  /\ variant = "blitz"
  /\ touchedFields' = [key \in Fields |-> FALSE]
  /\ last' = Op("resetTouched", "", Undef, NoCallbacks, <<>>)
  /\ calls' = <<>>
  /\ UNCHANGED <<props, diff>>

resetTouched ==
  /\ variant = "blitz"
  /\ touchedFields' = initTouched
  /\ last' = Op("resetTouched", "", Undef, NoCallbacks, <<>>)
  /\ calls' = <<>>
  /\ UNCHANGED <<props, diff>>

\* reset that clears only the entries of touched fields
resetTouchedEntries ==
  /\ diff' = [key \in Fields |-> IF touchedFields[key] THEN Undef ELSE diff[key]]
  /\ last' = Op("reset", "", Undef, NoCallbacks, <<>>)
  /\ calls' = <<>>
  /\ UNCHANGED <<props, touchedFields>>

\* reset that also restores the touched map
resetAndRestoreTouched ==
  /\ diff' = emptyDiff
  /\ touchedFields' = initTouched
  /\ last' = Op("reset", "", Undef, NoCallbacks, <<>>)
  /\ calls' = <<>>
  /\ UNCHANGED props

reset ==
  /\ diff' = emptyDiff
  /\ last' = Op("reset", "", Undef, NoCallbacks, <<>>)
  /\ calls' = <<>>
  /\ UNCHANGED <<props, touchedFields>>

\* handleSubmit validating the diff alone
submitRecordDiffOnly == [key \in Fields |-> diff[key]]

\* the record handleSubmit hands to schema.safeParse
submitRecord ==
  IF variant = "blitz" THEN formValues ELSE [key \in Fields |-> getValue(key)]

\* handleSubmit without the return after onSubmit
submitCallsFallThrough(onError) ==
  LET result == schemaSafeParse(submitRecord)
      failure == IF onError = "omitted" THEN <<>>
                 ELSE <<[cb |-> "onError", data |-> <<>>, issues |-> result.issues]>>
  IN  IF result.success
      THEN <<[cb |-> "onSubmit", data |-> <<result.data>>, issues |-> <<>>]>> \o failure
      ELSE failure

\* the callbacks handleSubmit invokes, in order; onError may be omitted
submitCalls(onError) ==
  LET result == schemaSafeParse(submitRecord)
  IN  IF result.success
      THEN <<[cb |-> "onSubmit", data |-> <<result.data>>, issues |-> <<>>]>>
      ELSE IF onError = "omitted" THEN <<>>
      ELSE <<[cb |-> "onError", data |-> <<>>, issues |-> result.issues]>>

\* the form of the example's EditUser: initTouched true, defaultUntouchOn
\* 'focus', the select bound with the order-insensitive isEqual
EditUser ==
  /\ config.initTouched.kind = "boolean" /\ config.initTouched.all
  /\ config.defaultUntouchOn = "focus"
  /\ options.isEqual = "sortedJoin"

\* EditUser's handleSubmitSuccess: setData(data) followed by reset(), which
\* makes the parsed data the upstream of the next render
SaveCallbacks == {[onSubmit |-> "setDataReset", onError |-> "touchAll"]}

\* what the host's callbacks do: nothing, or the reset() / touchAll() of the
\* documented flow
CallbackChoices ==
  { [onSubmit |-> "noop", onError |-> "noop"],
    [onSubmit |-> "reset", onError |-> "touchAll"],
    [onSubmit |-> "noop", onError |-> "omitted"] }

\* handleSubmit touching every field itself when validation fails
handleSubmitAutoTouch(cbs) ==
  LET made == submitCalls(cbs.onError)
      ran == IF made = <<>> THEN "none" ELSE made[1].cb
  IN  /\ calls' = made
      /\ diff' = IF ran = "onSubmit" /\ cbs.onSubmit \in {"reset", "setDataReset"}
                 THEN emptyDiff ELSE diff
      /\ upstreamData' = IF ran = "onSubmit" /\ cbs.onSubmit = "setDataReset"
                         THEN made[1].data[1] ELSE upstreamData
      /\ touchedFields' = IF ran = "onSubmit" THEN touchedFields ELSE allTouched
      /\ last' = Op("handleSubmit", "", Undef, cbs, <<diff>>)
      /\ UNCHANGED fixedProps

handleSubmit(cbs) ==
  LET made == submitCalls(cbs.onError)
      ran == IF made = <<>> THEN "none" ELSE made[1].cb
  IN  /\ calls' = made
      /\ diff' = IF ran = "onSubmit" /\ cbs.onSubmit \in {"reset", "setDataReset"}
                 THEN emptyDiff ELSE diff
      /\ upstreamData' = IF ran = "onSubmit" /\ cbs.onSubmit = "setDataReset"
                         THEN made[1].data[1] ELSE upstreamData
      /\ touchedFields' = IF ran = "onError" /\ cbs.onError = "touchAll"
                          THEN allTouched ELSE touchedFields
      /\ last' = Op("handleSubmit", "", Undef, cbs, <<diff>>)
      /\ UNCHANGED fixedProps

\* a component calling the provider-based accessor (useBlitzField; useRcfField
\* in the second fork) for a field, inside a provider holding ctx or outside
\* of any provider
useBlitzFieldUnchecked(provided, name) ==
  /\ calls' = <<Returned(useField(name))>>
  /\ last' = Op("useBlitzField", name, Bool(provided), NoCallbacks, <<>>)
  /\ UNCHANGED <<props, diff, touchedFields>>

useBlitzField(provided, name) ==
  /\ calls' = IF ~provided THEN <<Thrown>> ELSE <<Returned(useField(name))>>
  /\ last' = Op("useBlitzField", name, Bool(provided), NoCallbacks, <<>>)
  /\ UNCHANGED <<props, diff, touchedFields>>

\* const ctx = { ... }: the object a render creates, by its identity
ctxOf(render) == [ctx |-> render]

\* the host renders the form's component again, no state having changed;
\* the identities are numbered along a run of such renders
rerender ==
  LET prev == IF last.op = "render" THEN calls[1].data[1].ctx ELSE 0
  IN  /\ prev < MaxRenders
      /\ calls' = <<[cb |-> "render", data |-> <<ctxOf(prev + 1)>>, issues |-> <<>>]>>
      /\ last' = Op("render", "", Undef, NoCallbacks, <<>>)
      /\ UNCHANGED <<props, diff, touchedFields>>

Next ==
  \/ \E name \in Fields : \E value \in InputValues(name) : onChange(name, value)
  \/ \E name \in Fields : onFocus(name)
  \/ \E name \in Fields : onBlur(name)
  \/ touchAll
  \/ resetTouched
  \/ reset
  \/ \E cbs \in CallbackChoices : handleSubmit(cbs)
  \/ \E provided \in BOOLEAN, name \in Fields : useBlitzField(provided, name)

Spec == Init /\ [][Next]_vars

\* the example's EditUser, whose host replaces the upstream data on save and
\* renders the form whenever it renders itself
InitSave == Init /\ EditUser

NextSave ==
  \/ \E name \in Fields : \E value \in InputValues(name) : onChange(name, value)
  \/ \E name \in Fields : onFocus(name)
  \/ \E name \in Fields : onBlur(name)
  \/ touchAll
  \/ resetTouched
  \/ reset
  \/ \E cbs \in CallbackChoices \cup SaveCallbacks : handleSubmit(cbs)
  \/ \E provided \in BOOLEAN, name \in Fields : useBlitzField(provided, name)
  \/ rerender

SpecSave == InitSave /\ [][NextSave]_vars

-----------------------------------------------------------------------------
(* Two calls dispatched from one render.  A handler closes over the values  *)
(* of the render it was created in; a set-state call is queued and the      *)
(* queue is applied, in order, when the next render reads the state.        *)

\* setState((prev) => ({ ...prev, [key]: value }))
Spread(key, value) == [kind |-> "spread", key |-> key, value |-> value, state |-> <<>>]

\* setState(state)
Replace(state) == [kind |-> "replace", key |-> "", value |-> <<>>, state |-> state]

\* one queued update applied to the state the updates before it left
applyUpdate(update, prev) ==
  IF update.kind = "spread" THEN [prev EXCEPT ![update.key] = update.value]
  ELSE update.state

RECURSIVE processQueue(_, _)
processQueue(base, queue) ==
  IF queue = <<>> THEN base
  ELSE processQueue(applyUpdate(Head(queue), base), Tail(queue))

\* the callbacks a call invokes; handleSubmit parses the record of the
\* render it was created in
callbacksOf(call) ==
  IF call.op = "handleSubmit" THEN submitCalls(call.cbs.onError) ELSE <<>>

\* the callback of the host that ran, if any
ranOf(call) ==
  IF callbacksOf(call) = <<>> THEN "none"
  ELSE IF callbacksOf(call)[1].cb = "onSubmit" THEN call.cbs.onSubmit
  ELSE call.cbs.onError

\* onChange spreading the render's diff instead of the updater's prev
diffUpdatesFromClosure(call) ==
  CASE call.op = "onChange" -> <<Replace(changedDiff(diff, call.f, call.v))>>
    [] call.op = "reset" -> <<Replace(emptyDiff)>>
    [] call.op = "handleSubmit" ->
         IF ranOf(call) = "reset" THEN <<Replace(emptyDiff)>> ELSE <<>>
    [] OTHER -> <<>>

\* the setDiff calls a call makes
diffUpdates(call) ==
  CASE call.op = "onChange" ->
         IF isEqual(call.v, getUpstreamValue(call.f))
         THEN <<Spread(call.f, Undef)>>
         ELSE <<Spread(call.f, call.v)>>
    [] call.op = "reset" -> <<Replace(emptyDiff)>>
    [] call.op = "handleSubmit" ->
         IF ranOf(call) = "reset" THEN <<Replace(emptyDiff)>> ELSE <<>>
    [] OTHER -> <<>>

\* the setTouchedFields calls a call makes
touchedUpdates(call) ==
  CASE call.op = "onChange" ->
         IF unTouchOn(call.f) = "change" THEN <<Spread(call.f, FALSE)>> ELSE <<>>
    [] call.op = "onFocus" ->
         IF unTouchOn(call.f) = "focus" THEN <<Spread(call.f, FALSE)>> ELSE <<>>
    [] call.op = "onBlur" -> <<Spread(call.f, TRUE)>>
    [] call.op = "touchAll" -> <<Replace(allTouched)>>
    [] call.op = "resetTouched" -> <<Replace(initTouched)>>
    [] call.op = "handleSubmit" ->
         IF ranOf(call) = "touchAll" THEN <<Replace(allTouched)>> ELSE <<>>
    [] OTHER -> <<>>

\* the parsed values the events of a batch carry
BatchValues(key) ==
  IF key = "email" THEN {Null, Str("bad"), Str("a@b.c")}
  ELSE {Arr("r0", <<"Read", "Write">>), Arr("r1", <<"Write">>), Arr("r1", <<>>)}

\* the handlers one render hands out
HandlerCalls ==
  {Op("onChange", name, value, NoCallbacks, <<>>) :
     name \in {"email"}, value \in BatchValues("email")}
  \cup {Op("onChange", name, value, NoCallbacks, <<>>) :
          name \in {"permissions"}, value \in BatchValues("permissions")}
  \cup {Op(op, name, Undef, NoCallbacks, <<>>) :
          op \in {"onFocus", "onBlur"}, name \in Fields}
  \cup {Op(op, "", Undef, NoCallbacks, <<>>) :
          op \in {"touchAll", "reset"}
                \cup (IF variant = "blitz" THEN {"resetTouched"} ELSE {})}

BatchCallbacks ==
  { [onSubmit |-> "noop", onError |-> "noop"],
    [onSubmit |-> "reset", onError |-> "touchAll"] }

SubmitCalls == {Op("handleSubmit", "", Undef, cbs, <<>>) : cbs \in BatchCallbacks}

\* first and second are called one after the other from the closures of
\* the current render, before the next render
sameRender(first, second) ==
  /\ diff' = processQueue(diff, diffUpdates(first) \o diffUpdates(second))
  /\ touchedFields' =
       processQueue(touchedFields, touchedUpdates(first) \o touchedUpdates(second))
  /\ calls' = callbacksOf(first) \o callbacksOf(second)
  /\ last' = Op("sameRender", "", Undef, NoCallbacks, <<first, second>>)
  /\ UNCHANGED props

\* a form with the upstream data present and === as every isEqual
InitBatch ==
  /\ Init
  /\ upstreamData["email"] = Str("a@b.c")
  /\ options.isEqual = "omitted"

NextBatch ==
  \/ \E name \in Fields : \E value \in BatchValues(name) : onChange(name, value)
  \/ \E name \in Fields : onFocus(name)
  \/ \E name \in Fields : onBlur(name)
  \/ touchAll
  \/ resetTouched
  \/ reset
  \/ \E cbs \in BatchCallbacks : handleSubmit(cbs)
  \/ \E first \in HandlerCalls, second \in HandlerCalls \cup SubmitCalls :
       sameRender(first, second)

SpecBatch == InitBatch /\ [][NextBatch]_vars

-----------------------------------------------------------------------------
(* Properties.                                                              *)

FullUpstream == upstreamData["email"] = Str("a@b.c")

\* EffectiveValue of the data model: the entry of diff d when there is one,
\* else the upstream value
OverlayOf(d, key) == IF d[key] # Undef THEN d[key] ELSE upstreamData[key]

EffectiveRecord(d) == [key \in Fields |-> OverlayOf(d, key)]

\* C1 - Diff pruning: right after onChange of a field with a parsed value that
\* the binding's isEqual (=== or the order-insensitive array comparison) holds
\* equal to the upstream value, diff[field] reads undefined and the field is
\* not dirty, whatever the diff held before.
C1_DiffPruning ==
  (last.op = "onChange" /\ isEqual(last.v, upstreamData[last.f]))
    => (diff[last.f] = Undef /\ ~dirty(last.f))

C1_Witness ==
  /\ last.op = "onChange" /\ last.f = "permissions"
  /\ last.v = Arr("r1", <<"Write", "Read">>)
  /\ upstreamData["permissions"] = Arr("r0", <<"Read", "Write">>)
  /\ options.isEqual = "sortedJoin"
  /\ ~dirty("permissions")
  /\ dirty("email")

\* C2 - Effective value overlay, as claimed: in every state getValue(f), and
\* with it inputProps.value, is the diff entry of f when f has one (f is dirty)
\* and the upstream value otherwise, for every value a change handler can
\* store, null included.
C2_EffectiveValueOverlay ==
  \A key \in Fields :
    /\ getValue(key) = (IF isDiff(key) THEN diff[key] ELSE upstreamData[key])
    /\ inputPropsValue(key) = getValue(key)

\* C3 - handleSubmit called with both callbacks invokes exactly one of them,
\* exactly once, before it returns.
C3_ExactlyOneCallback ==
  (last.op = "handleSubmit" /\ last.cbs.onError # "omitted")
    => (Len(calls) = 1 /\ calls[1].cb \in {"onSubmit", "onError"})

C3_Witness ==
  /\ last.op = "handleSubmit" /\ last.cbs.onError = "touchAll"
  /\ Len(calls) = 1 /\ calls[1].cb = "onError"
  /\ touchedFields = allTouched

\* C4 - Submit success, as claimed: when the full effective record (every
\* field's effective value) passes the schema, handleSubmit invokes onSubmit
\* alone, with the validator's parsed output for that record.
C4_SubmitSuccess ==
  (last.op = "handleSubmit" /\ schemaSafeParse(EffectiveRecord(last.pre[1])).success)
    => calls = <<[cb |-> "onSubmit",
                  data |-> <<schemaSafeParse(EffectiveRecord(last.pre[1])).data>>,
                  issues |-> <<>>]>>

\* C5 - Submit failure, as claimed: when the full effective record fails the
\* schema, handleSubmit called with an onError invokes it alone, with an issue
\* for every failing field.
C5_SubmitFailure ==
  (last.op = "handleSubmit" /\ last.cbs.onError # "omitted"
     /\ ~schemaSafeParse(EffectiveRecord(last.pre[1])).success)
    => /\ Len(calls) = 1 /\ calls[1].cb = "onError"
       /\ \A key \in Fields :
            ~itemSafeParse(key, OverlayOf(last.pre[1], key)).success
              => \E i \in 1..Len(calls[1].issues) : calls[1].issues[i].path = key

\* C6 - Reset: a reset step ends with formDirty false and every effective
\* value equal to upstream, and a reset that follows a reset changes neither
\* the diff nor the touched map.
C6_Reset ==
  [][last'.op = "reset"
       => /\ ~formDirty'
          /\ \A key \in Fields : getValue(key)' = upstreamData'[key]
          /\ last.op = "reset" => (diff' = diff /\ touchedFields' = touchedFields)]_vars

C6_Witness ==
  /\ last.op = "reset" /\ FullUpstream
  /\ ~formDirty
  /\ getValue("permissions") = Arr("r0", <<"Read", "Write">>)
  /\ touchedFields["email"] /\ ~touchedFields["permissions"]

\* C7 - Diff invariant: no field is dirty while the value the diff stores for
\* it is equal, by the binding's equality function, to the upstream value.
C7_DiffInvariant ==
  \A key \in Fields : ~(isDiff(key) /\ isEqual(diff[key], upstreamData[key]))

C7_Witness ==
  /\ last.op = "handleSubmit"
  /\ options.isEqual = "sortedJoin" /\ FullUpstream
  /\ diff["permissions"] = Arr("r1", <<"Write">>)
  /\ diff["email"] = Str("")

\* C8 - onChange with a changed value, as claimed: right after onChange of f
\* with a parsed value v that isEqual holds different from upstream, the diff
\* maps f to v, f is dirty and inputProps.value is v.
C8_ChangedValue ==
  (last.op = "onChange" /\ ~isEqual(last.v, upstreamData[last.f]))
    => /\ diff[last.f] = last.v
       /\ dirty(last.f)
       /\ inputPropsValue(last.f) = last.v

\* C9 - Visibility gating, as claimed: errorMessage is undefined when the
\* field's effective value passes the field's validator, undefined when
\* showValidationOn is "touched" and the field is not touched, and otherwise
\* the formatted message of the effective value's validation error.
C9_VisibilityGating ==
  \A key \in Fields :
    LET result == itemSafeParse(key, OverlayOf(diff, key))
        hidden == showValidationOn = "touched" /\ ~touchedFields[key]
    IN  /\ result.success => errorMessage(key) = NoMessage
        /\ hidden => errorMessage(key) = NoMessage
        /\ (~result.success /\ ~hidden)
             => errorMessage(key) = formatErrorMessage(result.issues, key)

\* C10 - right after onBlur of a field the field is touched, whatever the
\* unTouchOn and showValidationOn policies are.
C10_BlurTouches ==
  last.op = "onBlur" => touchedFields[last.f]

C10_Witness ==
  /\ last.op = "onBlur" /\ last.f = "permissions"
  /\ unTouchOn("permissions") = "never" /\ showValidationOn = "always"
  /\ touchedFields["permissions"]
  /\ diff["permissions"] = Null

\* C11 - Untouch policy: with unTouchOn "focus", onFocus of f ends with f not
\* touched and onChange of f leaves touched(f) as it was; with unTouchOn
\* "change", onChange of f ends with f not touched, whether the value equals
\* upstream or not, and onFocus of f leaves touched(f) as it was.
C11_UntouchPolicy ==
  [][\A f \in Fields :
       /\ (last'.op = "onFocus" /\ last'.f = f /\ unTouchOn(f) = "focus")
            => ~touchedFields'[f]
       /\ (last'.op = "onChange" /\ last'.f = f /\ unTouchOn(f) = "focus")
            => touchedFields'[f] = touchedFields[f]
       /\ (last'.op = "onChange" /\ last'.f = f /\ unTouchOn(f) = "change")
            => ~touchedFields'[f]
       /\ (last'.op = "onFocus" /\ last'.f = f /\ unTouchOn(f) = "change")
            => touchedFields'[f] = touchedFields[f]]_vars

C11_Witness ==
  /\ last.op = "onChange" /\ last.f = "email" /\ last.v = Str("a@b.c")
  /\ FullUpstream /\ unTouchOn("email") = "change"
  /\ initTouched["email"] /\ ~touchedFields["email"]
  /\ ~dirty("email")
  /\ touchedFields["permissions"]

\* C12 - with unTouchOn "never" for f, an onFocus or onChange of any field
\* that starts with f touched ends with f touched.
C12_NeverUntouched ==
  [][\A f \in Fields :
       (unTouchOn(f) = "never" /\ touchedFields[f]
          /\ last'.op \in {"onFocus", "onChange"})
         => touchedFields'[f]]_vars

C12_Witness ==
  /\ unTouchOn("email") = "never" /\ unTouchOn("permissions") = "change"
  /\ last.op = "onChange" /\ last.f = "permissions"
  /\ touchedFields["email"] /\ ~initTouched["email"]
  /\ ~touchedFields["permissions"] /\ initTouched["permissions"]

C14_FormDirty ==
  [][/\ last.op = "init" => ~formDirty
     /\ (last'.op = "onChange" /\ last'.v # Undef
           /\ ~isEqual(last'.v, upstreamData[last'.f])) => formDirty'
     /\ (last'.op = "onChange" /\ isEqual(last'.v, upstreamData[last'.f])
           /\ \A g \in Fields \ {last'.f} : diff[g] = Undef) => ~formDirty'
     /\ last'.op \in {"onFocus", "onBlur", "touchAll", "resetTouched"}
          => formDirty' = formDirty
     /\ formDirty' <=> (\E key \in Fields : diff'[key] # Undef)]_vars

C14_Witness ==
  /\ last.op = "onChange" /\ last.f = "permissions"
  /\ last.v = Arr("r1", <<"Write", "Read">>)
  /\ options.isEqual = "sortedJoin" /\ FullUpstream
  /\ ~formDirty
  /\ touchedFields = allTouched /\ initTouched # allTouched

\* C15 - as claimed: the formValid that useForm hands to the host is, in every
\* state, true when no field's effective value produces a validation error
\* and false otherwise.
C15_FormValid ==
  destructured("formValid") =
    Bool(\A key \in Fields : itemSafeParse(key, OverlayOf(diff, key)).success)

\* C16 - as claimed: in every state and for every field, getError(f) is the
\* error of validating f's effective value of that state against f's schema
\* entry alone, and it is undefined (f is valid) exactly when that value
\* passes.
C16_ErrorsNeverStale ==
  \A key \in Fields :
    LET result == itemSafeParse(key, OverlayOf(diff, key))
    IN  /\ getError(key) = result.issues
        /\ valid(key) <=> result.success

\* C17 - handleSubmit does not auto-touch: a handleSubmit step whose callbacks
\* call nothing leaves the touched map and the diff as they were, on the
\* success and on the failure path; the touched map changes in a handleSubmit
\* step only when the onError callback that ran calls touchAll, and the diff
\* only when the onSubmit callback that ran calls reset.
C17_SubmitFrame ==
  [][last'.op = "handleSubmit"
       => /\ touchedFields' # touchedFields
               => (last'.cbs.onError = "touchAll" /\ calls' # <<>>
                     /\ calls'[1].cb = "onError")
          /\ diff' # diff
               => (last'.cbs.onSubmit \in {"reset", "setDataReset"} /\ calls' # <<>>
                     /\ calls'[1].cb = "onSubmit")
          /\ (last'.cbs.onSubmit = "noop" /\ last'.cbs.onError \in {"noop", "omitted"})
               => (touchedFields' = touchedFields /\ diff' = diff)]_vars

C17_Witness ==
  /\ last.op = "handleSubmit" /\ last.cbs.onError = "noop"
  /\ Len(calls) = 1 /\ calls[1].cb = "onError"
  /\ showValidationOn = "touched"
  /\ ~touchedFields["email"] /\ ~touchedFields["permissions"]
  /\ diff["email"] = Str("bad")

\* C18 - reset leaves the touched map as it was: after a reset step every
\* field's touched flag is what it was before the step.
C18_ResetKeepsTouched ==
  [][last'.op = "reset" => touchedFields' = touchedFields]_vars

C18_Witness ==
  /\ last.op = "reset" /\ ~formDirty
  /\ touchedFields["email"] /\ ~initTouched["email"]
  /\ ~touchedFields["permissions"] /\ initTouched["permissions"]

\* C19 - as claimed: right after touchAll (called directly or by the onError
\* callback of a failing handleSubmit) every field is touched, and every field
\* whose effective value is invalid reports a defined errorMessage, also under
\* showValidationOn "touched".
C19_TouchAllShowsErrors ==
  (\/ last.op = "touchAll"
   \/ /\ last.op = "handleSubmit" /\ last.cbs.onError = "touchAll"
      /\ calls # <<>> /\ calls[1].cb = "onError")
    => /\ \A key \in Fields : touchedFields[key]
       /\ \A key \in Fields :
            ~itemSafeParse(key, OverlayOf(diff, key)).success
              => errorMessage(key) # NoMessage

\* C20 - right after resetTouched every field's touched flag is the one
\* initTouched gives it (true for the fields initTouched marks), whatever
\* blur, focus, change and touchAll events came before.
C20_ResetTouched ==
  last.op = "resetTouched" => \A key \in Fields : touchedFields[key] = initTouched[key]

C20_Witness ==
  /\ last.op = "resetTouched"
  /\ config.initTouched.kind = "map"
  /\ touchedFields["email"] /\ ~touchedFields["permissions"]
  /\ formDirty

\* C21 - Dynamic disable, as claimed: in every state inputProps.disabled is
\* true when the static disabled option is true, otherwise the result of
\* disabledIf applied to the full effective record (the diff overlaid on
\* upstream for every field) when the binding has a disabledIf, otherwise
\* false.
C21_DynamicDisable ==
  \A name \in Fields :
    inputPropsDisabled(name) =
      (IF options.disabled = "true" THEN TRUE
       ELSE IF options.disabledIf # "omitted"
            THEN disabledIf(EffectiveRecord(diff)) = True
       ELSE FALSE)

\* the equality function the form-level override rule gives field f: the
\* binding's own when it has one, else config.isEqual[f], else ===
OverrideIsEqual(f, a, b) ==
  IF options.isEqual # "omitted" THEN isEqual(a, b)
  ELSE IF config.isEqual[f] = "sortedJoin" THEN sortedJoinIsEqual(a, b)
  ELSE defaultIsEqual(a, b)

\* C22 - Form-level equality override, as claimed: right after onChange of f
\* with a value that the binding's isEqual, or without one config.isEqual[f],
\* holds equal to upstream, the diff has no entry for f and f is not dirty.
C22_FormLevelIsEqual ==
  (last.op = "onChange" /\ OverrideIsEqual(last.f, last.v, upstreamData[last.f]))
    => (diff[last.f] = Undef /\ ~dirty(last.f))

\* C23 - Initial touched state: in the initial state every field is untouched
\* when initTouched is omitted, every field is touched (untouched) when
\* initTouched is true (false), and with a per-field map a field is touched
\* exactly when the map gives true for it.
C23_InitialTouched ==
  last.op = "init"
    => \A key \in Fields :
         touchedFields[key] =
           CASE config.initTouched.kind = "omitted" -> FALSE
             [] config.initTouched.kind = "boolean" -> config.initTouched.all
             [] config.initTouched.kind = "map" -> key \in config.initTouched.map

C23_Witness ==
  /\ last.op = "init" /\ config.initTouched.kind = "map"
  /\ touchedFields["permissions"] /\ ~touchedFields["email"]

\* the policies the precedence rule gives: the binding's option when given,
\* else the form default when given, else "focus" and "touched"
PrecedenceUntouch(f) ==
  IF options.unTouchOn[f] # "omitted" THEN options.unTouchOn[f]
  ELSE IF config.defaultUntouchOn # "omitted" THEN config.defaultUntouchOn
  ELSE "focus"

PrecedenceShow ==
  IF options.showValidationOn # "omitted" THEN options.showValidationOn
  ELSE IF config.defaultShowValidationOn # "omitted" THEN config.defaultShowValidationOn
  ELSE "touched"

\* C24 - Policy precedence: every onFocus and onChange of f untouches f
\* exactly when the policy the precedence rule gives f is "focus" resp.
\* "change", and leaves every other field's flag alone; and after every step
\* a field with an error hides its message exactly when the show policy the
\* precedence rule gives is "touched" and the field is not touched.
C24_PolicyPrecedence ==
  [][/\ \A f \in Fields :
          /\ (last'.op = "onFocus" /\ last'.f = f)
               => touchedFields' =
                    [touchedFields EXCEPT ![f] = (PrecedenceUntouch(f) # "focus") /\ @]
          /\ (last'.op = "onChange" /\ last'.f = f)
               => touchedFields' =
                    [touchedFields EXCEPT ![f] = (PrecedenceUntouch(f) # "change") /\ @]
     /\ \A f \in Fields :
          ~valid(f)' =>
            ((errorMessage(f)' = NoMessage)
               <=> (PrecedenceShow' = "touched" /\ ~touchedFields'[f]))]_vars

C24_Witness ==
  /\ last.op = "onFocus" /\ last.f = "email"
  /\ options.unTouchOn["email"] = "never" /\ config.defaultUntouchOn = "focus"
  /\ touchedFields["email"] /\ ~initTouched["email"]
  /\ touchedFields["permissions"]

\* C25 - binding a field through the provider-based accessor outside of any
\* provider throws the usage error, yields no binding and changes neither the
\* diff nor the touched map; inside a provider it returns what
\* useField(ctx, name, options) returns in that render.
C25_ProviderAccessor ==
  [][last'.op = "useBlitzField"
       => /\ diff' = diff /\ touchedFields' = touchedFields
          /\ last'.v = False
               => (Len(calls') = 1 /\ calls'[1].cb = "throw" /\ calls'[1].data = <<>>)
          /\ \A name \in Fields :
               (last'.v = True /\ last'.f = name)
                 => calls' = <<Returned(useField(name)')>>]_vars

C25_Witness ==
  /\ last.op = "useBlitzField" /\ last.f = "email" /\ last.v = False
  /\ calls = <<Thrown>>
  /\ diff["email"] = Str("bad") /\ touchedFields["email"]

\* C26 - Save-and-reset flow: right after a handleSubmit that succeeded and
\* whose onSubmit callback made the parsed data the upstream value and then
\* called reset(), the upstream value is the data the callback received, the
\* form is not dirty and every field displays the new upstream value.
C26_SaveAndReset ==
  (last.op = "handleSubmit" /\ last.cbs.onSubmit = "setDataReset"
     /\ calls # <<>> /\ calls[1].cb = "onSubmit")
    => /\ upstreamData = calls[1].data[1]
       /\ ~formDirty
       /\ \A key \in Fields :
            /\ inputPropsValue(key) = upstreamData[key]
            /\ ~dirty(key)

C26_Witness ==
  /\ last.op = "handleSubmit" /\ last.cbs.onSubmit = "setDataReset"
  /\ calls # <<>> /\ calls[1].cb = "onSubmit"
  /\ last.pre[1]["permissions"] = Arr("r1", <<"Write">>)
  /\ upstreamData["permissions"] = Arr("parsed", <<"Write">>)
  /\ inputPropsValue("permissions") = Arr("parsed", <<"Write">>)
  /\ ~formDirty

\* C27 - as claimed: two consecutive renders between which neither the diff
\* nor the touched map nor the props changed hand out the same ctx object.
C27_StableContext ==
  [][(last.op = "render" /\ last'.op = "render"
        /\ diff' = diff /\ touchedFields' = touchedFields /\ props' = props)
       => calls'[1].data[1] = calls[1].data[1]]_vars

\* C30 - as claimed: every statement of useForm's body reads only bindings
\* that earlier statements of that render initialised, so the render of a
\* form with a non-empty schema completes, and the ctx it returns holds
\* getValue and getError.
C30_WellOrderedRender ==
  /\ useFormCompletes
  /\ {"getValue", "getError"} \subseteq ctxUses

\* C28 - the diff is changed only by onChange and reset: every onBlur,
\* onFocus, touchAll and resetTouched step, and every handleSubmit step whose
\* callbacks do not call reset, leaves the diff as it was; and every onChange
\* step of a field whose unTouchOn is not "change" leaves the touched map as
\* it was.
C28_DiffOwnership ==
  [][/\ last'.op \in {"onBlur", "onFocus", "touchAll", "resetTouched"} => diff' = diff
     /\ (last'.op = "handleSubmit" /\ last'.cbs.onSubmit = "noop") => diff' = diff
     /\ (last'.op = "handleSubmit" /\ calls' # <<>> /\ calls'[1].cb = "onError")
          => diff' = diff
     /\ \A f \in Fields :
          (last'.op = "onChange" /\ last'.f = f /\ unTouchOn(f) # "change")
            => touchedFields' = touchedFields]_vars

C28_Witness ==
  /\ last.op = "onFocus" /\ last.f = "email" /\ unTouchOn("email") = "focus"
  /\ ~touchedFields["email"] /\ touchedFields["permissions"]
  /\ diff["email"] = Str("bad") /\ diff["permissions"] = Arr("r1", <<>>)

\* C29 - Per-field isolation: an onChange, onFocus or onBlur of f leaves, for
\* every other field g, the diff entry, the touched flag, the effective
\* value, the dirty flag and the validation error of g as they were.
C29_FieldIsolation ==
  [][\A f \in Fields, g \in Fields :
       (last'.op \in {"onChange", "onFocus", "onBlur"} /\ last'.f = f /\ g # f)
         => /\ diff'[g] = diff[g]
            /\ touchedFields'[g] = touchedFields[g]
            /\ getValue(g)' = getValue(g)
            /\ dirty(g)' = dirty(g)
            /\ getError(g)' = getError(g)]_vars

C29_Witness ==
  /\ last.op = "onChange" /\ last.f = "email" /\ last.v = Str("bad")
  /\ unTouchOn("email") = "change" /\ ~touchedFields["email"]
  /\ diff["permissions"] = Arr("r1", <<"Write">>) /\ touchedFields["permissions"]
  /\ getError("email") # <<>> /\ getError("permissions") = <<>>

\* C33 - Field-level and form-level validation agree: a handleSubmit step
\* invokes onSubmit exactly when, in the state it is called in, every
\* field's valid flag is true (the object schema accepting a record exactly
\* when every field's schema accepts the field's value).
C33_ValidationAgrees ==
  [][last'.op = "handleSubmit"
       => ((calls' # <<>> /\ calls'[1].cb = "onSubmit")
             <=> \A key \in Fields : valid(key))]_vars

C33_Witness ==
  /\ last.op = "handleSubmit" /\ last.cbs.onSubmit = "noop"
  /\ calls # <<>> /\ calls[1].cb = "onSubmit"
  /\ ~isDiff("email") /\ valid("email")
  /\ diff["permissions"] = Arr("r1", <<"Write">>) /\ valid("permissions")

\* C34 - a field absent from the upstream value reads undefined everywhere:
\* without a diff entry its effective value is undefined, it is not dirty and
\* its error is that of validating undefined; and a handleSubmit called while
\* such a field is required does not invoke onSubmit and hands onError, when
\* given, an issue for that field, bound and touched or not.
C34_AbsentUpstream ==
  [][\A key \in Fields :
       (upstreamData'[key] = Undef /\ diff'[key] = Undef)
         => /\ getValue(key)' = Undef
            /\ ~dirty(key)'
            /\ getError(key)' = itemSafeParse(key, Undef).issues
            /\ (last'.op = "handleSubmit" /\ diff[key] = Undef /\ required(key))
                 => /\ \A i \in 1..Len(calls') : calls'[i].cb # "onSubmit"
                    /\ last'.cbs.onError # "omitted"
                         => (Len(calls') = 1 /\ calls'[1].cb = "onError"
                               /\ \E i \in 1..Len(calls'[1].issues) :
                                    calls'[1].issues[i].path = key)]_vars

C34_Witness ==
  /\ last.op = "handleSubmit" /\ upstreamData["permissions"] = Undef
  /\ diff["email"] = Str("a@b.c") /\ diff["permissions"] = Undef
  /\ ~touchedFields["permissions"]
  /\ calls # <<>> /\ calls[1].cb = "onError"
  /\ Len(calls[1].issues) = 1 /\ calls[1].issues[1].path = "permissions"

\* C35 - as claimed: in every state and for every field the valid flag and
\* inputProps' data-valid are true exactly when validating the field's
\* effective value (the diff entry overlaid on upstream) gives no error,
\* whatever touched, showValidationOn and unTouchOn are; and a defined
\* errorMessage implies that valid is false.
C35_ValidityIndependent ==
  \A key \in Fields :
    LET clean == itemSafeParse(key, OverlayOf(diff, key)).success
        binding == useField(key)
    IN  /\ binding.valid = clean
        /\ binding.inputProps.dataValid = clean
        /\ binding.errorMessage # NoMessage => ~binding.valid

\* C36 - as claimed: the disabled flag a binding returns next to inputProps
\* equals inputProps.disabled in every state, also when the field is
\* disabled through disabledIf alone.
C36_DisabledAgrees ==
  \A name \in Fields :
    useField(name).disabled = useField(name).inputProps.disabled

\* C37 - Disabling is presentational only: while inputProps.disabled of a
\* field is true, its onChange still stores or prunes the value and
\* untouches by policy, its onFocus and onBlur still set the touched flag by
\* policy, and a handleSubmit still validates the field's value: an invalid
\* disabled field keeps onSubmit from being called and is reported to
\* onError, and the data handed to onSubmit holds the field's parsed value.
C37_DisabledPresentational ==
  [][\A name \in Fields :
       inputPropsDisabled(name)
         => /\ (last'.op = "onChange" /\ last'.f = name)
                 => /\ diff' = [diff EXCEPT ![name] =
                                  IF isEqual(last'.v, getUpstreamValue(name))
                                  THEN Undef ELSE last'.v]
                    /\ touchedFields'[name] =
                         (unTouchOn(name) # "change" /\ touchedFields[name])
            /\ (last'.op = "onFocus" /\ last'.f = name)
                 => touchedFields'[name] =
                      (unTouchOn(name) # "focus" /\ touchedFields[name])
            /\ (last'.op = "onBlur" /\ last'.f = name) => touchedFields'[name]
            /\ last'.op = "handleSubmit"
                 => /\ ~valid(name)
                         => /\ \A i \in 1..Len(calls') : calls'[i].cb # "onSubmit"
                            /\ last'.cbs.onError # "omitted"
                                 => \E i \in 1..Len(calls'[1].issues) :
                                      calls'[1].issues[i].path = name
                    /\ (calls' # <<>> /\ calls'[1].cb = "onSubmit")
                         => calls'[1].data[1][name]
                              = itemSafeParse(name, getValue(name)).data]_vars

C37_Witness ==
  /\ last.op = "onChange" /\ last.f = "email" /\ last.v = Str("bad")
  /\ options.disabled = "true" /\ inputPropsDisabled("email")
  /\ diff["email"] = Str("bad") /\ ~valid("email")

\* C38 - as claimed: for a form whose bindings use no disabledIf the two
\* variants behave alike in every state: whichever the variant, useForm's
\* render completes, and the value, dirty, valid, touched and errorMessage
\* its binding of a field yields, and the record its handleSubmit validates,
\* are those of the second variant's expressions over the same diff, touched
\* map and upstream.
C38_VariantsEquivalent ==
  options.disabledIf = "omitted"
    => /\ useFormCompletes
       /\ submitRecord = [key \in Fields |-> Nullish(diff[key], upstreamData[key])]
       /\ \A name \in Fields :
            LET binding == useField(name)
                value == Nullish(diff[name], upstreamData[name])
                issues == itemSafeParse(name, value).issues
            IN  /\ binding.inputProps.value = value
                /\ binding.dirty = (diff[name] # Undef)
                /\ binding.touched = touchedFields[name]
                /\ binding.valid = (issues = <<>>)
                /\ (binding.errorMessage # NoMessage)
                     = (issues # <<>>
                          /\ ~(showValidationOn = "touched" /\ ~touchedFields[name]))
                /\ binding.inputProps.disabled = disabled

\* the diff and the touched map a call leaves when it is dispatched alone
\* from a render of diff d and touched map t
AloneDiff(call, d) ==
  CASE call.op = "onChange" -> changedDiff(d, call.f, call.v)
    [] call.op = "reset" -> emptyDiff
    [] OTHER -> d

AloneTouched(call, t) ==
  CASE call.op = "onChange" ->
         IF unTouchOn(call.f) = "change" THEN setTouched(t, call.f, FALSE) ELSE t
    [] call.op = "onFocus" ->
         IF unTouchOn(call.f) = "focus" THEN setTouched(t, call.f, FALSE) ELSE t
    [] call.op = "onBlur" -> setTouched(t, call.f, TRUE)
    [] call.op = "touchAll" -> allTouched
    [] call.op = "resetTouched" -> initTouched
    [] OTHER -> t

\* C31 - No lost updates within one render: a step of one onChange, onFocus,
\* onBlur, touchAll, resetTouched or reset call leaves the diff and the
\* touched map AloneDiff and AloneTouched give, and a step of two such calls
\* dispatched one after the other from the same render leaves the diff and
\* the touched map of the second call dispatched alone from a render of what
\* the first call dispatched alone left.
C31_NoLostUpdates ==
  [][/\ last'.op \in {"onChange", "onFocus", "onBlur", "touchAll", "resetTouched", "reset"}
          => /\ diff' = AloneDiff(last', diff)
             /\ touchedFields' = AloneTouched(last', touchedFields)
     /\ (last'.op = "sameRender" /\ last'.pre[2].op # "handleSubmit")
          => /\ diff' = AloneDiff(last'.pre[2], AloneDiff(last'.pre[1], diff))
             /\ touchedFields' =
                  AloneTouched(last'.pre[2], AloneTouched(last'.pre[1], touchedFields))]_vars

C31_Witness ==
  /\ last.op = "sameRender"
  /\ last.pre[1].op = "onChange" /\ last.pre[1].f = "email"
  /\ last.pre[2].op = "onChange" /\ last.pre[2].f = "permissions"
  /\ diff["email"] = Str("bad") /\ diff["permissions"] = Arr("r1", <<"Write">>)

\* the callbacks a handleSubmit given onError invokes when it validates record
ValidatedCalls(record, onError) ==
  LET result == schemaSafeParse(record)
  IN  IF result.success
      THEN <<[cb |-> "onSubmit", data |-> <<result.data>>, issues |-> <<>>]>>
      ELSE IF onError = "omitted" THEN <<>>
      ELSE <<[cb |-> "onError", data |-> <<>>, issues |-> result.issues]>>

\* C32 - as claimed: handleSubmit validates the latest committed state: the
\* callbacks it invokes are those of validating the record that holds, for
\* every field, the value the most recent onChange dispatched before it set
\* (or the upstream value), also when that onChange and the handleSubmit
\* come from the closures of the same render.
C32_SubmitLatestState ==
  [][/\ last'.op = "handleSubmit"
          => calls' = ValidatedCalls(EffectiveRecord(diff), last'.cbs.onError)
     /\ (last'.op = "sameRender" /\ last'.pre[1].op = "onChange"
           /\ last'.pre[2].op = "handleSubmit")
          => calls' = ValidatedCalls(EffectiveRecord(AloneDiff(last'.pre[1], diff)),
                                    last'.pre[2].cbs.onError)]_vars

====
